---- MODULE Spec2Model ----
(***************************************************************************)
(* SimpleMovieSync: the room synchronisation engine of src/src/server.js   *)
(* (HTTP room routes and Socket.IO handlers) and the SyncService class     *)
(* (heartbeat broadcaster and clock model).                                *)
(*                                                                         *)
(* Node runs every handler to completion, so each handler is one action.   *)
(* Date.now() is the variable now (milliseconds, wall clock: it may step   *)
(* backward).  Positions (currentTime) are seconds, as in the source.      *)
(***************************************************************************)
EXTENDS Integers, Sequences, FiniteSets, TLC

\* ------------------------------------------------------------ bounds
MaxClock == 5000        \* largest wall-clock reading explored (ms)
MaxViewers == 2         \* longest roster explored
MaxJobs == 1            \* transcode jobs in flight per movie
MaxChat == 1            \* longest chat history explored
MaxTimers == 2          \* heartbeat timers running at once

Conns == {"s1", "s2"}               \* socket ids
RoomIds == {"r1", "r2"}             \* values uuidv4().substring(0, 8) yields
MovieIds == {"m1"}                  \* values uuidv4() yields for a movie
Positions == {0, 10, 50, 52}        \* currentTime payloads of play/pause/seek
ClockSteps == {5000}                \* amounts by which the wall clock moves
Delays == {0, 5000}                 \* clock advance between two Date.now() reads of one handler
FineSteps == {1000}                 \* clock moves of the clock-model specification
FineDelays == {0, 1000}
Messages == {3, 501}                \* chatMessage payloads, as their length in characters
Emojis == {"heart"}                 \* reaction payloads
OneConn == {"s1"}
OneMessage == {501}
OneRoom == {"r1"}
OnePosition == {0}
NoDelay == {0}
\* state arguments of SyncService.updatePlaybackState
AnchorUpdates == {[isPlaying |-> TRUE], [currentTime |-> 10]}
Null == "null"                      \* undefined / null

\* ------------------------------------------------- program constants
MsPerSecond == 1000
MessageLimit == 500      \* message.substring(0, 500)
ChatLimit == 200         \* room.chat.slice(-200)
RoomStateChat == 50      \* room.chat.slice(-50)

VARIABLES
    now,        \* Date.now()
    movies,     \* server.js movies Map: movieId -> [transcodeStatus]
    jobs,       \* transcodeMovie promises not yet settled, per movie
    rooms,      \* server.js rooms Map: roomId -> [viewers, playbackState, chat]
    syncRooms,  \* SyncService.rooms Map: roomId -> [playbackState]
    heap,       \* playbackState objects: reference -> [isPlaying, currentTime, lastUpdate]
    usedIds,    \* room ids uuidv4 has produced so far
    sockets,    \* socket id -> [status, roomId, joined]
    out,        \* emits of the most recent handler
    service,    \* SyncService and its process: [syncInterval, timers, crashed]
    hist        \* per room: flag of the latest play/pause, position of the latest
                \* play/pause/seek, whether there was any

vars == <<now, movies, jobs, rooms, syncRooms, heap, usedIds, sockets, out, service, hist>>

\* ------------------------------------------------------------ helpers
EmptyMap == [x \in {} |-> Null]

MapDeleteNothing(m, k) == m

\* Map.set / Map.delete on a function whose domain is the key set
MapSet(m, k, v) == [x \in DOMAIN m \cup {k} |-> IF x = k THEN v ELSE m[x]]
MapDelete(m, k) == [x \in DOMAIN m \ {k} |-> m[x]]

FilterOutAll(viewers, id) == <<>>

\* Array.prototype.filter(v => v.id !== id)
RECURSIVE FilterOut(_, _)
FilterOut(viewers, id) ==
    IF viewers = <<>> THEN <<>>
    ELSE IF Head(viewers).id # id
         THEN <<Head(viewers)>> \o FilterOut(Tail(viewers), id)
         ELSE FilterOut(Tail(viewers), id)

\* Array.prototype.slice(-n): the last n elements
slice(s, n) == IF Len(s) > n THEN SubSeq(s, Len(s) - n + 1, Len(s)) ELSE s

\* String.prototype.substring(0, n) of a string of the given length
substring(length, n) == IF length > n THEN n ELSE length

\* socket.io channel roomId in socket table socks: the sockets that called
\* socket.join(roomId) and have not left it
Channel(socks, roomId) == {c \in Conns : roomId \in socks[c].joined}

\* io.to(roomId): every socket of the channel
IoTo(socks, roomId) == Channel(socks, roomId)

SocketToAll(socks, c, roomId) == Channel(socks, roomId)

\* socket.to(roomId): every socket of the channel but the sender
SocketTo(socks, c, roomId) == Channel(socks, roomId) \ {c}

IoEmit(c) == {x \in Conns : sockets[x].status = "open"}

\* socket.emit: the socket itself
SocketEmit(c) == {c}

Emit(event, channel, to, data) ==
    [event |-> event, channel |-> channel, to |-> to, data |-> data]

NoHist == [flag |-> FALSE, any |-> FALSE, pos |-> 0]

\* ------------------------------------------------------------ clock model
\* const elapsed = (Date.now() - lastUpdate) / 1000; currentTime += elapsed
ExtrapolateAlways(ps, clock) ==
    ps.currentTime + ((clock - ps.lastUpdate) \div MsPerSecond)

ExtrapolateMillis(ps, clock) ==
    IF ps.isPlaying
    THEN ps.currentTime + (clock - ps.lastUpdate)
    ELSE ps.currentTime

Extrapolate(ps, clock) ==
    IF ps.isPlaying
    THEN ps.currentTime + ((clock - ps.lastUpdate) \div MsPerSecond)
    ELSE ps.currentTime

\* SyncService.getCurrentTime(roomId) with Date.now() = clock
getCurrentTime(roomId, clock) ==
    IF roomId \notin DOMAIN syncRooms THEN 0
    ELSE Extrapolate(heap[syncRooms[roomId].playbackState], clock)

getPlaybackStateStored(roomId, t1, t2) ==
    [isPlaying |-> heap[syncRooms[roomId].playbackState].isPlaying,
     currentTime |-> heap[syncRooms[roomId].playbackState].currentTime,
     serverTime |-> t2]

\* SyncService.getPlaybackState(roomId): Date.now() is read once inside
\* getCurrentTime (t1) and once for serverTime (t2)
getPlaybackState(roomId, t1, t2) ==
    [isPlaying |-> heap[syncRooms[roomId].playbackState].isPlaying,
     currentTime |-> getCurrentTime(roomId, t1),
     serverTime |-> t2]

\* ------------------------------------------------------------ broadcaster timer
\* this.syncInterval = null
NoTimer == 0

\* new SyncService(io): the constructor starts the broadcaster; timers are
\* the intervals set and not cleared, the process has not crashed
Started == [syncInterval |-> 1, timers |-> {1}, crashed |-> FALSE]

\* setInterval(...): a timer that is not among the running ones
setInterval(timers) ==
    CHOOSE h \in 1..MaxTimers : h \notin timers /\ \A x \in 1..(h - 1) : x \in timers

\* ------------------------------------------------------------ initial state
Init ==
    /\ now = 0
    /\ movies = EmptyMap
    /\ jobs = [m \in MovieIds |-> 0]
    /\ rooms = EmptyMap
    /\ syncRooms = EmptyMap
    /\ heap = EmptyMap
    /\ usedIds = {}
    /\ sockets = [c \in Conns |-> [status |-> "new", roomId |-> Null, joined |-> {}]]
    /\ out = {}
    /\ service = Started
    /\ hist = [r \in RoomIds |-> NoHist]

\* ------------------------------------------------------------ wall clock
ClockForward(d) ==
    /\ now + d <= MaxClock
    /\ now' = now + d
    /\ UNCHANGED <<movies, jobs, rooms, syncRooms, heap, usedIds, sockets, out, hist, service>>

ClockBackward(d) ==
    /\ now - d >= 0
    /\ now' = now - d
    /\ UNCHANGED <<movies, jobs, rooms, syncRooms, heap, usedIds, sockets, out, hist, service>>

\* ------------------------------------------------------------ movie catalog
\* POST /api/upload: a new movie, transcodeStatus 'pending'
UploadMovie(m) ==
    /\ m \notin DOMAIN movies
    /\ movies' = MapSet(movies, m, [transcodeStatus |-> "pending"])
    /\ out' = {}
    /\ UNCHANGED <<now, jobs, rooms, syncRooms, heap, usedIds, sockets, hist, service>>

\* POST /api/movies/:movieId/transcode
StartTranscode(m) ==
    /\ out' = {}
    /\ IF m \notin DOMAIN movies
       THEN /\ UNCHANGED <<movies, jobs>>
       ELSE /\ jobs[m] < MaxJobs
            /\ movies' = [movies EXCEPT ![m].transcodeStatus = "processing"]
            /\ jobs' = [jobs EXCEPT ![m] = @ + 1]
    /\ UNCHANGED <<now, rooms, syncRooms, heap, usedIds, sockets, hist, service>>

\* transcodeMovie(...).then: the job finished
TranscodeResolved(m) ==
    /\ jobs[m] > 0
    /\ jobs' = [jobs EXCEPT ![m] = @ - 1]
    /\ movies' = [movies EXCEPT ![m].transcodeStatus = "completed"]
    /\ out' = {Emit("transcodeComplete", "admin", IoTo(sockets, "admin"), [movieId |-> m])}
    /\ UNCHANGED <<now, rooms, syncRooms, heap, usedIds, sockets, hist, service>>

\* transcodeMovie(...).catch: the job failed
TranscodeRejected(m) ==
    /\ jobs[m] > 0
    /\ jobs' = [jobs EXCEPT ![m] = @ - 1]
    /\ movies' = [movies EXCEPT ![m].transcodeStatus = "failed"]
    /\ out' = {Emit("transcodeError", "admin", IoTo(sockets, "admin"), [movieId |-> m])}
    /\ UNCHANGED <<now, rooms, syncRooms, heap, usedIds, sockets, hist, service>>

\* ------------------------------------------------------------ room registry
\* SyncService.createRoom(roomId, roomData): roomData.playbackState is truthy,
\* so the SyncService room holds the very object the server room holds
createRoom(roomId, roomData) ==
    MapSet(syncRooms, roomId, [id |-> roomId, playbackState |-> roomData.playbackState])

\* SyncService.deleteRoom(roomId)
deleteRoom(roomId) == MapDelete(syncRooms, roomId)

\* the reference of the object literal updatePlaybackState allocates for a
\* room; the object the SyncService room held before is dropped by it
NewObject == [r \in RoomIds |-> IF r = "r1" THEN "o1" ELSE "o2"]

\* { ...playbackState, ...state, lastUpdate: Date.now() }
spread(playbackState, state, clock) ==
    [isPlaying |-> IF "isPlaying" \in DOMAIN state
                   THEN state.isPlaying ELSE playbackState.isPlaying,
     currentTime |-> IF "currentTime" \in DOMAIN state
                     THEN state.currentTime ELSE playbackState.currentTime,
     lastUpdate |-> clock]

\* SyncService.updatePlaybackState(roomId, state): the SyncService room gets
\* a new playbackState object, the server room keeps the one it has
UpdatePlaybackState(roomId, state) ==
    /\ roomId \in DOMAIN syncRooms
    /\ heap' = MapSet(heap, NewObject[roomId],
                      spread(heap[syncRooms[roomId].playbackState], state, now))
    /\ syncRooms' = [syncRooms EXCEPT ![roomId].playbackState = NewObject[roomId]]
    /\ UNCHANGED <<now, movies, jobs, rooms, usedIds, sockets, out, hist, service>>

\* res.status(status).json(body): the reply to the HTTP client, to no socket
Respond(status, body) == Emit("response", Null, {}, [status |-> status, body |-> body])

notCompletedOnlyFailed(movie) == movie.transcodeStatus = "failed"

\* movie.transcodeStatus !== 'completed'
notCompleted(movie) == movie.transcodeStatus # "completed"

\* POST /api/rooms with body.movieId = m; id is the value
\* uuidv4().substring(0, 8) yields: the route does not look it up in rooms
CreateRoom(m, id) ==
    /\ IF m \notin DOMAIN movies
       THEN /\ out' = {Respond(404, [error |-> "Movie not found"])}
            /\ UNCHANGED <<rooms, syncRooms, heap, usedIds>>
       ELSE IF notCompleted(movies[m])
       THEN /\ out' = {Respond(400, [error |-> "Movie transcoding not completed"])}
            /\ UNCHANGED <<rooms, syncRooms, heap, usedIds>>
       ELSE /\ out' = {Respond(200, [success |-> TRUE, room |-> id])}
            /\ usedIds' = usedIds \cup {id}
            /\ LET room == [id |-> id, movieId |-> m, viewers |-> <<>>, playbackState |-> id,
                            chat |-> <<>>]
               IN /\ heap' = MapSet(heap, id,
                                [isPlaying |-> FALSE, currentTime |-> 0, lastUpdate |-> now])
                  /\ rooms' = MapSet(rooms, id, room)
                  /\ syncRooms' = createRoom(id, room)
    /\ hist' = [hist EXCEPT ![id] = NoHist]
    /\ UNCHANGED <<now, movies, jobs, sockets, service>>

\* DELETE /api/rooms/:roomId
DeleteRoom(roomId) ==
    /\ out' = {}
    /\ IF roomId \notin DOMAIN rooms
       THEN /\ UNCHANGED <<rooms, syncRooms, heap>>
       ELSE /\ syncRooms' = deleteRoom(roomId)
            /\ rooms' = MapDelete(rooms, roomId)
            /\ heap' = MapDelete(MapDelete(heap, rooms[roomId].playbackState),
                                 syncRooms[roomId].playbackState)
    /\ hist' = [hist EXCEPT ![roomId] = NoHist]
    /\ UNCHANGED <<now, movies, jobs, usedIds, sockets, service>>

\* ------------------------------------------------------------ membership
\* io.on('connection')
Connect(c) ==
    /\ sockets[c].status = "new"
    /\ sockets' = [sockets EXCEPT ![c].status = "open"]
    /\ out' = {}
    /\ UNCHANGED <<now, movies, jobs, rooms, syncRooms, heap, usedIds, hist, service>>

pushReplace(viewers, viewer) == <<viewer>>

\* room.viewers.push(viewer)
push(viewers, viewer) == Append(viewers, viewer)

\* socket.on('joinRoom')
JoinRoom(c, roomId) ==
    /\ sockets[c].status = "open"
    /\ IF roomId \notin DOMAIN rooms
       THEN /\ out' = {Emit("error", Null, SocketEmit(c), [message |-> "Room not found"])}
            /\ UNCHANGED <<rooms, sockets>>
       ELSE /\ Len(rooms[roomId].viewers) < MaxViewers
            /\ LET viewer == [id |-> c]
                   socks == [sockets EXCEPT ![c].joined = @ \cup {roomId},
                                            ![c].roomId = roomId]
                   viewers == push(rooms[roomId].viewers, viewer)
               IN /\ sockets' = socks
                  /\ rooms' = [rooms EXCEPT ![roomId].viewers = viewers]
                  /\ out' = {Emit("roomState", Null, SocketEmit(c),
                                  [viewerCount |-> Len(viewers),
                                   playbackState |-> heap[rooms[roomId].playbackState],
                                   chat |-> slice(rooms[roomId].chat, RoomStateChat),
                                   viewers |-> viewers]),
                             Emit("viewerJoined", roomId, SocketTo(socks, c, roomId),
                                  [viewer |-> viewer]),
                             Emit("viewerCount", roomId, IoTo(socks, roomId),
                                  [count |-> Len(viewers)])}
    /\ UNCHANGED <<now, movies, jobs, syncRooms, heap, usedIds, hist, service>>

\* handleLeaveRoom(socket), run with socket table socks (on 'disconnect'
\* socket.io has already taken the socket out of every channel)
handleLeaveRoom(c, socks) ==
    LET roomId == socks[c].roomId
    IN IF roomId # Null
       THEN /\ IF roomId \in DOMAIN rooms
               THEN LET viewers == FilterOut(rooms[roomId].viewers, c)
                    IN /\ rooms' = [rooms EXCEPT ![roomId].viewers = viewers]
                       /\ out' = {Emit("viewerLeft", roomId, SocketTo(socks, c, roomId),
                                       [viewerId |-> c]),
                                  Emit("viewerCount", roomId, IoTo(socks, roomId),
                                       [count |-> Len(viewers)])}
               ELSE /\ out' = {}
                    /\ UNCHANGED rooms
            /\ sockets' = [socks EXCEPT ![c].joined = @ \ {roomId}]
       ELSE /\ out' = {}
            /\ sockets' = socks
            /\ UNCHANGED rooms

\* socket.on('leaveRoom')
LeaveRoom(c) ==
    /\ sockets[c].status = "open"
    /\ handleLeaveRoom(c, sockets)
    /\ UNCHANGED <<now, movies, jobs, syncRooms, heap, usedIds, hist, service>>

\* socket.on('disconnect')
Disconnect(c) ==
    /\ sockets[c].status = "open"
    /\ handleLeaveRoom(c, [sockets EXCEPT ![c].status = "closed", ![c].joined = {}])
    /\ UNCHANGED <<now, movies, jobs, syncRooms, heap, usedIds, hist, service>>

\* ------------------------------------------------------------ transport control
\* the anchor a play, pause or seek handler leaves: the fields are assigned
\* in place on the room's playbackState object
PlayAnchorNoStamp(ps, currentTime, clock) ==
    [ps EXCEPT !.isPlaying = TRUE, !.currentTime = currentTime]

PlayAnchor(ps, currentTime, clock) ==
    [ps EXCEPT !.isPlaying = TRUE, !.currentTime = currentTime, !.lastUpdate = clock]

PauseAnchorFlagOnly(ps, currentTime, clock) ==
    [ps EXCEPT !.isPlaying = FALSE]

PauseAnchor(ps, currentTime, clock) ==
    [ps EXCEPT !.isPlaying = FALSE, !.currentTime = currentTime, !.lastUpdate = clock]

SeekAnchorStale(ps, currentTime, clock) ==
    [ps EXCEPT !.lastUpdate = clock]

SeekAnchorPauses(ps, currentTime, clock) ==
    [ps EXCEPT !.isPlaying = FALSE, !.currentTime = currentTime, !.lastUpdate = clock]

SeekAnchor(ps, currentTime, clock) ==
    [ps EXCEPT !.currentTime = currentTime, !.lastUpdate = clock]

SyncRecipientsAll(c, roomId) == IoTo(sockets, roomId)

\* the sockets a play/pause/seek handler of socket c sends its sync* event to
SyncRecipients(c, roomId) == SocketTo(sockets, c, roomId)

\* socket.on('play'); d is the clock advance between the two Date.now() reads
Play(c, roomId, currentTime, d) ==
    /\ sockets[c].status = "open"
    /\ now + d <= MaxClock
    /\ IF roomId \notin DOMAIN rooms
       THEN /\ out' = {}
            /\ UNCHANGED <<heap, hist, now>>
       ELSE /\ heap' = [heap EXCEPT ![rooms[roomId].playbackState] =
                                        PlayAnchor(@, currentTime, now)]
            /\ out' = {Emit("syncPlay", roomId, SyncRecipients(c, roomId),
                            [currentTime |-> currentTime, serverTime |-> now + d])}
            /\ hist' = [hist EXCEPT ![roomId] =
                                        [flag |-> TRUE, any |-> TRUE, pos |-> currentTime]]
            /\ now' = now + d
    /\ UNCHANGED <<movies, jobs, rooms, syncRooms, usedIds, sockets, service>>

\* socket.on('pause')
Pause(c, roomId, currentTime, d) ==
    /\ sockets[c].status = "open"
    /\ now + d <= MaxClock
    /\ IF roomId \notin DOMAIN rooms
       THEN /\ out' = {}
            /\ UNCHANGED <<heap, hist, now>>
       ELSE /\ heap' = [heap EXCEPT ![rooms[roomId].playbackState] =
                                        PauseAnchor(@, currentTime, now)]
            /\ out' = {Emit("syncPause", roomId, SyncRecipients(c, roomId),
                            [currentTime |-> currentTime, serverTime |-> now + d])}
            /\ hist' = [hist EXCEPT ![roomId] =
                                        [flag |-> FALSE, any |-> TRUE, pos |-> currentTime]]
            /\ now' = now + d
    /\ UNCHANGED <<movies, jobs, rooms, syncRooms, usedIds, sockets, service>>

\* socket.on('seek')
Seek(c, roomId, currentTime, d) ==
    /\ sockets[c].status = "open"
    /\ now + d <= MaxClock
    /\ IF roomId \notin DOMAIN rooms
       THEN /\ out' = {}
            /\ UNCHANGED <<heap, hist, now>>
       ELSE /\ heap' = [heap EXCEPT ![rooms[roomId].playbackState] =
                                        SeekAnchor(@, currentTime, now)]
            /\ out' = {Emit("syncSeek", roomId, SyncRecipients(c, roomId),
                            [currentTime |-> currentTime, serverTime |-> now + d])}
            /\ hist' = [hist EXCEPT ![roomId].pos = currentTime, ![roomId].any = TRUE]
            /\ now' = now + d
    /\ UNCHANGED <<movies, jobs, rooms, syncRooms, usedIds, sockets, service>>

\* the syncState payload of socket.on('requestSync'): the handler's own
\* extrapolation of room.playbackState at clock, serverTime read later
SyncState(ps, clock, serverTime) ==
    [isPlaying |-> ps.isPlaying,
     currentTime |-> IF ps.isPlaying
                     THEN ps.currentTime + ((clock - ps.lastUpdate) \div MsPerSecond)
                     ELSE ps.currentTime,
     serverTime |-> serverTime]

\* socket.on('requestSync')
RequestSync(c, roomId, d) ==
    /\ sockets[c].status = "open"
    /\ now + d <= MaxClock
    /\ IF roomId \notin DOMAIN rooms
       THEN /\ out' = {}
            /\ UNCHANGED now
       ELSE /\ out' = {Emit("syncState", Null, SocketEmit(c),
                            SyncState(heap[rooms[roomId].playbackState], now, now + d))}
            /\ now' = now + d
    /\ UNCHANGED <<movies, jobs, rooms, syncRooms, heap, usedIds, sockets, hist, service>>

\* ------------------------------------------------------------ chat and reactions
\* socket.username: set by joinRoom, undefined before the first join
username(c) == IF sockets[c].roomId = Null THEN Null ELSE c

pushChatNoTrim(chat, chatMessage) == Append(chat, chatMessage)

\* room.chat.push(chatMessage), then the trim to the last 200 messages
pushChat(chat, chatMessage) ==
    LET pushed == Append(chat, chatMessage)
    IN IF Len(pushed) > ChatLimit THEN slice(pushed, ChatLimit) ELSE pushed

\* socket.on('chatMessage'); message is the length of the text sent
ChatMessage(c, roomId, message) ==
    /\ sockets[c].status = "open"
    /\ IF roomId \notin DOMAIN rooms
       THEN /\ out' = {}
            /\ UNCHANGED rooms
       ELSE /\ LET chatMessage == [username |-> username(c),
                                   message |-> substring(message, MessageLimit),
                                   timestamp |-> now]
               IN /\ rooms' = [rooms EXCEPT ![roomId].chat = pushChat(@, chatMessage)]
                  /\ out' = {Emit("newMessage", roomId, IoTo(sockets, roomId), chatMessage)}
    /\ UNCHANGED <<now, movies, jobs, syncRooms, heap, usedIds, sockets, hist, service>>

ReactionPauses(c, roomId, emoji) ==
    /\ sockets[c].status = "open"
    /\ IF roomId \notin DOMAIN rooms
       THEN /\ out' = {}
            /\ UNCHANGED heap
       ELSE /\ out' = {Emit("newReaction", roomId, IoTo(sockets, roomId),
                            [username |-> username(c), emoji |-> emoji])}
            /\ heap' = [heap EXCEPT ![rooms[roomId].playbackState].isPlaying = FALSE]
    /\ UNCHANGED <<now, movies, jobs, rooms, syncRooms, usedIds, sockets, hist, service>>

\* socket.on('reaction')
Reaction(c, roomId, emoji) ==
    /\ sockets[c].status = "open"
    /\ IF roomId \notin DOMAIN rooms
       THEN out' = {}
       ELSE out' = {Emit("newReaction", roomId, IoTo(sockets, roomId),
                         [username |-> username(c), emoji |-> emoji])}
    /\ UNCHANGED <<now, movies, jobs, rooms, syncRooms, heap, usedIds, sockets, hist, service>>

\* ------------------------------------------------------------ heartbeat
HeartbeatRoomsAll == DOMAIN syncRooms

\* the rooms the setInterval callback of startSyncBroadcasts emits for
HeartbeatRooms ==
    {r \in DOMAIN syncRooms : heap[syncRooms[r].playbackState].isPlaying}

\* one tick of the setInterval callback of a running timer
Heartbeat(d) ==
    /\ service.timers # {}
    /\ now + d <= MaxClock
    /\ out' = {Emit("syncHeartbeat", r, IoTo(sockets, r), getPlaybackState(r, now, now + d))
               : r \in HeartbeatRooms}
    /\ now' = IF HeartbeatRooms = {} THEN now ELSE now + d
    /\ UNCHANGED <<movies, jobs, rooms, syncRooms, heap, usedIds, sockets, hist, service>>

\* one tick in which the emit for Playing room r throws, after the rooms
\* done were served (rooms.forEach visits SyncService.rooms in insertion
\* order, which is not recorded: done is any set of other Playing rooms);
\* nothing catches the exception, and an uncaught exception ends the process
HeartbeatThrows(d, r, done) ==
    /\ service.timers # {}
    /\ now + d <= MaxClock
    /\ r \in HeartbeatRooms
    /\ done \subseteq HeartbeatRooms \ {r}
    /\ out' = {Emit("syncHeartbeat", x, IoTo(sockets, x), getPlaybackState(x, now, now + d))
               : x \in done}
    /\ now' = now + d
    /\ service' = [service EXCEPT !.crashed = TRUE]
    /\ UNCHANGED <<movies, jobs, rooms, syncRooms, heap, usedIds, sockets, hist>>

\* SyncService.startSyncBroadcasts()
StartSyncBroadcasts ==
    /\ Cardinality(service.timers) < MaxTimers
    /\ LET h == setInterval(service.timers)
       IN service' = [service EXCEPT !.syncInterval = h, !.timers = @ \cup {h}]
    /\ UNCHANGED <<now, movies, jobs, rooms, syncRooms, heap, usedIds, sockets, out, hist>>

\* SyncService.stopSyncBroadcasts()
StopSyncBroadcasts ==
    /\ service' = IF service.syncInterval # NoTimer
                  THEN [service EXCEPT !.timers = @ \ {service.syncInterval},
                                       !.syncInterval = NoTimer]
                  ELSE service
    /\ UNCHANGED <<now, movies, jobs, rooms, syncRooms, heap, usedIds, sockets, out, hist>>

\* ------------------------------------------------------------ specifications
\* the process runs: no uncaught exception has ended it; only then does it
\* handle requests, events and timer ticks
Alive == ~service.crashed

\* the socket handlers, the room routes and the heartbeat, with sockets C,
\* room ids R, positions P and in-handler clock advances D as inputs; the
\* room ids uuidv4 yields are ids it has not yielded before
Handlers(C, R, P, D) ==
    \/ \E m \in MovieIds, id \in R \ usedIds : Alive /\ CreateRoom(m, id)
    \/ \E r \in R : Alive /\ DeleteRoom(r)
    \/ \E c \in C : Alive /\ Connect(c)
    \/ \E c \in C, r \in R : Alive /\ JoinRoom(c, r)
    \/ \E c \in C : Alive /\ LeaveRoom(c)
    \/ \E c \in C : Alive /\ Disconnect(c)
    \/ \E c \in C, r \in R, t \in P, d \in D : Alive /\ Play(c, r, t, d)
    \/ \E c \in C, r \in R, t \in P, d \in D : Alive /\ Pause(c, r, t, d)
    \/ \E c \in C, r \in R, t \in P, d \in D : Alive /\ Seek(c, r, t, d)
    \/ \E c \in C, r \in R, d \in D : Alive /\ RequestSync(c, r, d)
    \/ \E d \in D : Alive /\ Heartbeat(d)

\* chat messages and reactions of sockets C on room ids R, for chat
\* histories of up to MaxChat messages
Chatter(C, R, M) ==
    \/ \E c \in C, r \in R, m \in M :
          /\ Alive
          /\ r \in DOMAIN rooms => Len(rooms[r].chat) < MaxChat
          /\ ChatMessage(c, r, m)
    \/ \E c \in C, r \in R, j \in Emojis : Alive /\ Reaction(c, r, j)

\* POST /api/rooms when uuidv4 yields an id whose first 8 characters it has
\* yielded before
Collide(R) == \E m \in MovieIds, id \in R \cap usedIds : Alive /\ CreateRoom(m, id)

\* calls of the broadcaster's start and stop methods, and ticks that throw
Broadcaster(R, D) ==
    \/ Alive /\ StartSyncBroadcasts
    \/ Alive /\ StopSyncBroadcasts
    \/ \E d \in D, r \in R, done \in SUBSET R : Alive /\ HeartbeatThrows(d, r, done)

\* calls of SyncService.updatePlaybackState on room ids R with states U
Updater(R, U) == \E r \in R, u \in U : Alive /\ UpdatePlaybackState(r, u)

Clock(S) ==
    \/ \E d \in S : ClockForward(d)
    \/ \E d \in S : ClockBackward(d)

Catalog ==
    \/ \E m \in MovieIds : Alive /\ UploadMovie(m)
    \/ \E m \in MovieIds : Alive /\ StartTranscode(m)
    \/ \E m \in MovieIds : Alive /\ TranscodeResolved(m)
    \/ \E m \in MovieIds : Alive /\ TranscodeRejected(m)

\* The whole server from start-up.
Next ==
    \/ Catalog
    \/ Clock(ClockSteps)
    \/ Handlers(Conns, RoomIds, Positions, Delays)
    \/ Chatter(Conns, RoomIds, Messages)
    \/ Collide(RoomIds)
    \/ Broadcaster(RoomIds, Delays)
    \/ Updater(RoomIds, AnchorUpdates)

Spec == Init /\ [][Next]_vars

\* The server once a movie has been uploaded and transcoded: rooms can be created.
InitReady ==
    /\ now = 0
    /\ movies = [m \in MovieIds |-> [transcodeStatus |-> "completed"]]
    /\ jobs = [m \in MovieIds |-> 0]
    /\ rooms = EmptyMap
    /\ syncRooms = EmptyMap
    /\ heap = EmptyMap
    /\ usedIds = {}
    /\ sockets = [c \in Conns |-> [status |-> "new", roomId |-> Null, joined |-> {}]]
    /\ out = {}
    /\ service = Started
    /\ hist = [r \in RoomIds |-> NoHist]

\* One room, every position and a moving wall clock: the values of the
\* anchor and of the messages computed from it.
NextRoom == Clock(ClockSteps) \/ Handlers(Conns, OneRoom, Positions, Delays)

SpecRoom == InitReady /\ [][NextRoom]_vars

\* Two rooms, a frozen clock and one position: who is in which room and
\* who is sent what.
NextRooms == Handlers(Conns, RoomIds, OnePosition, NoDelay)

SpecRooms == InitReady /\ [][NextRooms]_vars

\* Two rooms and one socket, with chat and reactions: events that name a
\* room that does not exist or exists no longer.
NextGone ==
    \/ Handlers(OneConn, RoomIds, OnePosition, NoDelay)
    \/ Chatter(OneConn, RoomIds, OneMessage)

SpecGone == InitReady /\ [][NextGone]_vars

\* The movie catalog from start-up, with one room id and one socket: room
\* creation for a movie in each transcode status.
NextCatalog == Catalog \/ Handlers(OneConn, OneRoom, OnePosition, NoDelay)

SpecCatalog == Init /\ [][NextCatalog]_vars

\* One room whose chat history holds any number of messages up to the
\* limit, and a chat message at most once per clock reading: the history
\* kept as messages are appended.
ChatLengths == {0, 1, ChatLimit - 1, ChatLimit}

InitChat ==
    /\ now = 0
    /\ movies = [m \in MovieIds |-> [transcodeStatus |-> "completed"]]
    /\ jobs = [m \in MovieIds |-> 0]
    /\ \E n \in ChatLengths :
          rooms = [r \in OneRoom |->
                      [id |-> r, movieId |-> "m1", viewers |-> <<[id |-> "s1"]>>,
                       playbackState |-> r,
                       chat |-> [i \in 1..n |->
                                    [username |-> "s1", message |-> i, timestamp |-> 0]]]]
    /\ syncRooms = [r \in OneRoom |-> [id |-> r, playbackState |-> r]]
    /\ heap = [x \in OneRoom |-> [isPlaying |-> FALSE, currentTime |-> 0, lastUpdate |-> 0]]
    /\ usedIds = OneRoom
    /\ sockets = [c \in Conns |->
                     IF c = "s1"
                     THEN [status |-> "open", roomId |-> "r1", joined |-> {"r1"}]
                     ELSE [status |-> "new", roomId |-> Null, joined |-> {}]]
    /\ out = {}
    /\ service = Started
    /\ hist = [r \in RoomIds |-> NoHist]

NextChat ==
    \/ Clock(FineSteps)
    \/ \E c \in OneConn, r \in OneRoom, m \in Messages :
          /\ rooms[r].chat # <<>> => rooms[r].chat[Len(rooms[r].chat)].timestamp < now
          /\ ChatMessage(c, r, m)

SpecChat == InitChat /\ [][NextChat]_vars

\* Two rooms and one socket, with the broadcaster started and stopped and
\* ticks that throw: which timers run and what a failing tick leaves.
NextTimer ==
    \/ Handlers(OneConn, RoomIds, OnePosition, NoDelay)
    \/ Broadcaster(RoomIds, NoDelay)

SpecTimer == InitReady /\ [][NextTimer]_vars

\* Two rooms and one socket, with calls of updatePlaybackState: the room
\* registry of the server and the one of the SyncService side by side.
NextSync ==
    \/ Handlers(OneConn, RoomIds, OnePosition, NoDelay)
    \/ Updater(RoomIds, AnchorUpdates)

SpecSync == InitReady /\ [][NextSync]_vars

\* One room id that uuidv4 may yield again while it is in use.
NextIds == Collide(OneRoom) \/ Handlers(Conns, OneRoom, OnePosition, NoDelay)

SpecIds == InitReady /\ [][NextIds]_vars

\* A room with any anchor and any clock reading, one viewer in it: the
\* position computed from an anchor, for every anchor and clock value.
ClockValues == {t \in 0..MaxClock : t % MsPerSecond = 0}

InitClock ==
    /\ now \in ClockValues
    /\ movies = [m \in MovieIds |-> [transcodeStatus |-> "completed"]]
    /\ jobs = [m \in MovieIds |-> 0]
    /\ \E playing \in BOOLEAN, p \in Positions, t \in ClockValues :
          /\ heap = [x \in OneRoom |->
                        [isPlaying |-> playing, currentTime |-> p, lastUpdate |-> t]]
          /\ hist = [r \in RoomIds |->
                        IF r \in OneRoom
                        THEN [flag |-> playing, any |-> TRUE, pos |-> p]
                        ELSE NoHist]
    /\ rooms = [r \in OneRoom |->
                   [id |-> r, movieId |-> "m1", viewers |-> <<[id |-> "s1"]>>,
                    playbackState |-> r, chat |-> <<>>]]
    /\ syncRooms = [r \in OneRoom |-> [id |-> r, playbackState |-> r]]
    /\ usedIds = OneRoom
    /\ sockets = [c \in Conns |->
                     IF c = "s1"
                     THEN [status |-> "open", roomId |-> "r1", joined |-> {"r1"}]
                     ELSE [status |-> "new", roomId |-> Null, joined |-> {}]]
    /\ out = {}
    /\ service = Started

NextClock ==
    \/ Clock(FineSteps)
    \/ \E r \in OneRoom, d \in FineDelays : RequestSync("s1", r, d)
    \/ \E d \in FineDelays : Heartbeat(d)

SpecClock == InitClock /\ [][NextClock]_vars

\* ------------------------------------------------------------ vocabulary
\* the anchor the socket handlers write and requestSync reads
Anchor(r) == heap[rooms[r].playbackState]

\* the anchor the heartbeat reads
SyncAnchor(r) == heap[syncRooms[r].playbackState]

\* the ids of a room's roster
Roster(r) == {rooms[r].viewers[i].id : i \in 1..Len(rooms[r].viewers)}

\* the connections that are members of room r
Members(r) == {c \in Conns : sockets[c].status = "open" /\ c \in Roster(r)}

Emitted(event) == {e \in out : e.event = event}

\* the sockets the emits o deliver event to
Recipients(o, event) == UNION {e.to : e \in {x \in o : x.event = event}}
\* ------------------------------------------------------------ claims
\* C1: after any sequence of play, pause and seek events on an existing room,
\* requestSync replies with isPlaying equal to the flag of the latest
\* play/pause (false if none) and, when that flag is false, with currentTime
\* equal to the currentTime of the latest play/pause/seek event.
C1_SyncAfterEvents ==
    [][\A c \in Conns, r \in RoomIds, d \in Delays :
          RequestSync(c, r, d) /\ r \in DOMAIN rooms =>
             \E e \in out' :
                /\ e.event = "syncState"
                /\ e.data.isPlaying = hist[r].flag
                /\ (~hist[r].flag /\ hist[r].any => e.data.currentTime = hist[r].pos)]_vars

\* a reply {isPlaying: false, currentTime: 52} after a latest event pause(52)
C1_Witness ==
    \E e \in Emitted("syncState"), r \in DOMAIN rooms :
        /\ hist[r] = [flag |-> FALSE, any |-> TRUE, pos |-> 52]
        /\ ~e.data.isPlaying
        /\ e.data.currentTime = 52

\* C2: play leaves the anchor {isPlaying: true, currentTime: the event's,
\* lastUpdate: the clock at handling}, pause leaves it {isPlaying: false,
\* currentTime: the event's, lastUpdate: the clock at handling}, whatever it was.
C2_PlayPauseAnchor ==
    [][\A c \in Conns, r \in RoomIds, t \in Positions, d \in Delays :
          /\ Play(c, r, t, d) /\ r \in DOMAIN rooms =>
                /\ Anchor(r)' = [isPlaying |-> TRUE, currentTime |-> t, lastUpdate |-> now]
                /\ SyncAnchor(r)' = Anchor(r)'
          /\ Pause(c, r, t, d) /\ r \in DOMAIN rooms =>
                /\ Anchor(r)' = [isPlaying |-> FALSE, currentTime |-> t, lastUpdate |-> now]
                /\ SyncAnchor(r)' = Anchor(r)']_vars

\* a play at clock 5000 has replaced an anchor
C2_Witness ==
    \E e \in Emitted("syncPlay") :
        /\ e.channel \in DOMAIN rooms
        /\ Anchor(e.channel) = [isPlaying |-> TRUE, currentTime |-> 52, lastUpdate |-> 5000]

\* C3: seek replaces the anchor's currentTime and lastUpdate and leaves
\* isPlaying as it was.
C3_SeekKeepsState ==
    [][\A c \in Conns, r \in RoomIds, t \in Positions, d \in Delays :
          Seek(c, r, t, d) /\ r \in DOMAIN rooms =>
             Anchor(r)' = [isPlaying |-> Anchor(r).isPlaying, currentTime |-> t,
                           lastUpdate |-> now]]_vars

\* a seek on a Playing room, which is still Playing
C3_Witness ==
    \E e \in Emitted("syncSeek") :
        /\ e.channel \in DOMAIN rooms
        /\ Anchor(e.channel) = [isPlaying |-> TRUE, currentTime |-> 50, lastUpdate |-> 5000]
\* C4: for a play, pause or seek on an existing room the syncPlay, syncPause
\* or syncSeek message goes to every member of the room but the originator,
\* not to the originator, and to no connection outside the room.
C4_SyncToOtherMembers ==
    [][\A c \in Conns, r \in RoomIds, t \in OnePosition, d \in NoDelay :
          r \in DOMAIN rooms =>
             /\ Play(c, r, t, d) =>
                   /\ Recipients(out', "syncPlay") = Members(r) \ {c}
                   /\ \A e \in out' : e.event = "syncPlay" /\ e.channel = r
             /\ Pause(c, r, t, d) =>
                   /\ Recipients(out', "syncPause") = Members(r) \ {c}
                   /\ \A e \in out' : e.event = "syncPause" /\ e.channel = r
             /\ Seek(c, r, t, d) =>
                   /\ Recipients(out', "syncSeek") = Members(r) \ {c}
                   /\ \A e \in out' : e.event = "syncSeek" /\ e.channel = r]_vars

\* a syncPlay that reached the other member of the room and not its
\* originator, who is a member too
C4_Witness ==
    \E e \in Emitted("syncPlay") :
        /\ e.channel \in DOMAIN rooms
        /\ Cardinality(Members(e.channel)) = 2
        /\ Cardinality(e.to) = 1

\* C5: requestSync changes no room state and produces exactly one syncState
\* message, sent to the requesting connection and to no other.
C5_RequestSyncReadOnly ==
    [][\A c \in Conns, r \in RoomIds, d \in NoDelay :
          RequestSync(c, r, d) /\ r \in DOMAIN rooms =>
             /\ rooms' = rooms /\ syncRooms' = syncRooms /\ heap' = heap
             /\ Cardinality(out') = 1
             /\ \A e \in out' : e.event = "syncState" /\ e.to = {c}]_vars

\* a reply to one socket while the other is a member of the same room
C5_Witness ==
    \E e \in Emitted("syncState"), r \in DOMAIN rooms :
        /\ Cardinality(Members(r)) = 2
        /\ Cardinality(e.to) = 1
        /\ e.to \subseteq Members(r)
        /\ e.data.isPlaying = Anchor(r).isPlaying

\* C6: for an anchor with isPlaying = false the position the server computes
\* (SyncService.getCurrentTime, the requestSync reply) is the stored
\* currentTime for every clock value, also one earlier than lastUpdate.
C6_PausedPosition ==
    \A r \in DOMAIN syncRooms :
        ~SyncAnchor(r).isPlaying =>
            \A t \in ClockValues : getCurrentTime(r, t) = SyncAnchor(r).currentTime

C6_PausedReply ==
    \A r \in RoomIds, d \in FineDelays :
        RequestSync("s1", r, d) /\ r \in DOMAIN rooms /\ ~Anchor(r).isPlaying =>
            \E e \in out' :
                /\ e.event = "syncState"
                /\ ~e.data.isPlaying
                /\ e.data.currentTime = Anchor(r).currentTime

C6_PausedPositionIsStored == []C6_PausedPosition /\ [][C6_PausedReply]_vars

\* a reply for a paused anchor whose lastUpdate is later than the clock
C6_Witness ==
    \E e \in Emitted("syncState"), r \in DOMAIN rooms :
        /\ ~Anchor(r).isPlaying
        /\ Anchor(r).currentTime = 52
        /\ Anchor(r).lastUpdate > now
        /\ e.data.currentTime = 52
        /\ e.data.serverTime = now

\* C7: for an anchor with isPlaying = true and a clock value now >= lastUpdate
\* the position the server computes is currentTime + (now - lastUpdate) in
\* seconds, and for a fixed anchor it is non-decreasing in now.
C7_PlayingPosition ==
    \A r \in DOMAIN syncRooms :
        SyncAnchor(r).isPlaying =>
            \A t \in ClockValues :
                t >= SyncAnchor(r).lastUpdate =>
                    /\ (getCurrentTime(r, t) - SyncAnchor(r).currentTime) * MsPerSecond
                          = t - SyncAnchor(r).lastUpdate
                    /\ \A u \in ClockValues :
                          u >= t => getCurrentTime(r, u) >= getCurrentTime(r, t)

C7_PlayingReply ==
    \A r \in RoomIds, d \in FineDelays :
        /\ RequestSync("s1", r, d) /\ r \in DOMAIN rooms
        /\ Anchor(r).isPlaying /\ now >= Anchor(r).lastUpdate
        => \E e \in out' :
              /\ e.event = "syncState"
              /\ e.data.isPlaying
              /\ (e.data.currentTime - Anchor(r).currentTime) * MsPerSecond
                    = now - Anchor(r).lastUpdate

C7_PlayingPositionAdvances == []C7_PlayingPosition /\ [][C7_PlayingReply]_vars

\* a reply for a playing anchor read 3 seconds after its lastUpdate
C7_Witness ==
    \E e \in Emitted("syncState"), r \in DOMAIN rooms :
        /\ Anchor(r) = [isPlaying |-> TRUE, currentTime |-> 10, lastUpdate |-> 1000]
        /\ e.data.isPlaying
        /\ e.data.currentTime = 13
        /\ e.data.serverTime = 4000

\* C8: a heartbeat tick at clock T + d sends a room whose anchor is
\* {isPlaying: true, currentTime: p, lastUpdate: T} a syncHeartbeat with
\* isPlaying true and currentTime p + d in seconds.
C8_HeartbeatPosition ==
    [][\A d \in Delays :
          Heartbeat(d) =>
             \A r \in DOMAIN rooms :
                Anchor(r).isPlaying =>
                   \E e \in out' :
                      /\ e.event = "syncHeartbeat"
                      /\ e.channel = r
                      /\ e.data.isPlaying
                      /\ (e.data.currentTime - Anchor(r).currentTime) * MsPerSecond
                            = now - Anchor(r).lastUpdate]_vars

\* p = 10 and d = 5 s: the heartbeat carries 15, and reaches a viewer
C8_Witness ==
    \E e \in Emitted("syncHeartbeat") :
        /\ e.channel \in DOMAIN rooms
        /\ Anchor(e.channel) = [isPlaying |-> TRUE, currentTime |-> 10, lastUpdate |-> 0]
        /\ e.data.currentTime = 15
        /\ e.data.isPlaying
        /\ e.to # {}

\* C9: a heartbeat tick sends one syncHeartbeat to every member of every
\* room that exists and is Playing, and none for a room that is Paused.
C9_HeartbeatToPlayingRooms ==
    [][\A d \in NoDelay :
          Heartbeat(d) =>
             /\ \A r \in DOMAIN rooms :
                   Anchor(r).isPlaying =>
                      /\ Cardinality({e \in out' : e.channel = r}) = 1
                      /\ \A e \in out' : e.channel = r => e.to = Members(r)
             /\ \A e \in out' :
                   /\ e.event = "syncHeartbeat"
                   /\ e.channel \in DOMAIN rooms
                   /\ Anchor(e.channel).isPlaying]_vars

\* a tick with one Playing room with two members and one Paused room with a member
C9_Witness ==
    /\ Cardinality(out) = 1
    /\ \E e \in Emitted("syncHeartbeat") : Cardinality(e.to) = 2
    /\ \E r \in DOMAIN rooms : ~Anchor(r).isPlaying /\ Members(r) # {}

\* C10: a play, pause or seek whose clock reading is earlier than the room's
\* stored lastUpdate leaves the stored anchor unchanged, so a room's
\* lastUpdate never decreases.
C10_StaleUpdateIgnored ==
    [][\A c \in Conns, r \in RoomIds, t \in Positions, d \in Delays :
          /\ r \in DOMAIN rooms
          /\ now < Anchor(r).lastUpdate
          /\ Play(c, r, t, d) \/ Pause(c, r, t, d) \/ Seek(c, r, t, d)
          => Anchor(r)' = Anchor(r)]_vars

\* C11: the position the server reports for a Playing room, in the
\* syncState reply and in the syncHeartbeat, is never less than the stored
\* currentTime and never negative, also when the clock reads less than
\* lastUpdate.
C11_NeverBelowStored ==
    [][/\ \A c \in Conns, r \in RoomIds, d \in Delays :
             RequestSync(c, r, d) /\ r \in DOMAIN rooms /\ Anchor(r).isPlaying =>
                \A e \in out' :
                   /\ e.data.currentTime >= Anchor(r).currentTime
                   /\ e.data.currentTime >= 0
       /\ \A d \in Delays :
             Heartbeat(d) =>
                \A e \in out' :
                   /\ e.data.currentTime >= SyncAnchor(e.channel).currentTime
                   /\ e.data.currentTime >= 0]_vars

\* C12: no reader of a room's anchor sees a partly applied play, pause or
\* seek: from one handler or timer tick to the next the anchor of a room is
\* either unchanged or the complete result of one play (isPlaying true), pause
\* (isPlaying false) or seek (isPlaying kept), with the event's currentTime
\* and the clock at handling; both registries show the same anchor; and the
\* roomState reply of joinRoom carries that anchor.
C12_CompleteAnchor ==
    \A r \in DOMAIN rooms \cap DOMAIN rooms' :
        \/ Anchor(r)' = Anchor(r)
        \/ \E t \in Positions :
              Anchor(r)' \in {[isPlaying |-> TRUE, currentTime |-> t, lastUpdate |-> now],
                              [isPlaying |-> FALSE, currentTime |-> t, lastUpdate |-> now],
                              [isPlaying |-> Anchor(r).isPlaying, currentTime |-> t,
                               lastUpdate |-> now]}

C12_ReadersAgree ==
    /\ \A r \in DOMAIN rooms' : SyncAnchor(r)' = Anchor(r)'
    /\ \A c \in Conns, r \in RoomIds :
          JoinRoom(c, r) /\ r \in DOMAIN rooms =>
             \E e \in out' : e.event = "roomState" /\ e.data.playbackState = Anchor(r)

C12_NoPartialAnchor == [][C12_CompleteAnchor /\ C12_ReadersAgree]_vars

\* a viewer joined a room whose anchor was last written by a seek on a
\* Playing room, and read that anchor whole
C12_Witness ==
    \E e \in Emitted("roomState"), r \in DOMAIN rooms :
        /\ hist[r] = [flag |-> TRUE, any |-> TRUE, pos |-> 50]
        /\ Anchor(r) = [isPlaying |-> TRUE, currentTime |-> 50, lastUpdate |-> 5000]
        /\ e.data.playbackState = Anchor(r)

\* C13: play, pause and seek on a room are applied and broadcast in the order
\* of their handling: a handler writes the anchor and emits its one sync*
\* message in the same step, so the sync* message emitted last on a room is
\* the one of the event written last (a syncPause is never emitted after the
\* syncSeek of a later seek), and no other step emits a sync* message.
SyncEvents == {"syncPlay", "syncPause", "syncSeek"}

C13_LatestBroadcastIsLatestWrite ==
    \A e \in out :
        e.event \in SyncEvents =>
            /\ out = {e}
            /\ e.channel \in DOMAIN rooms
            /\ Anchor(e.channel).currentTime = e.data.currentTime
            /\ hist[e.channel].any /\ hist[e.channel].pos = e.data.currentTime
            /\ e.event = "syncPlay" => Anchor(e.channel).isPlaying
            /\ e.event = "syncPause" => ~Anchor(e.channel).isPlaying

C13_WriteAndBroadcastTogether ==
    \A r \in DOMAIN rooms \cap DOMAIN rooms' :
        Anchor(r)' # Anchor(r) =>
            \E e \in out' :
                /\ e.event \in SyncEvents
                /\ e.channel = r
                /\ e.data.currentTime = Anchor(r)'.currentTime

Entries(r, c) ==
    Cardinality({i \in 1..Len(rooms[r].viewers) : rooms[r].viewers[i].id = c})

\* C14: a joinRoom on an existing room adds exactly one roster entry, for
\* the joining connection, and removes or duplicates no other entry, so
\* joins from N distinct connections leave N entries, one per connection.
C14_JoinAddsOneEntry ==
    [][\A c \in Conns, r \in RoomIds :
          JoinRoom(c, r) /\ r \in DOMAIN rooms =>
             /\ \A x \in Conns :
                   Entries(r, x)' = Entries(r, x) + (IF x = c THEN 1 ELSE 0)
             /\ Len(rooms'[r].viewers) = Len(rooms[r].viewers) + 1
             /\ \A q \in DOMAIN rooms \ {r} : rooms'[q] = rooms[q]]_vars

\* both connections joined the same room: two entries, one per connection
C14_Witness ==
    \E r \in DOMAIN rooms :
        /\ Len(rooms[r].viewers) = Cardinality(Conns)
        /\ \A c \in Conns : Entries(r, c) = 1
        /\ \E e \in Emitted("viewerCount") : e.data.count = Cardinality(Conns)

\* C15: a leaveRoom or disconnect from a connection that never joined a room,
\* or that has already left the room it joined last, removes no roster entry:
\* every roster is after the step what it was before.
C15_RepeatedLeaveRemovesNothing ==
    [][\A c \in Conns :
          /\ sockets[c].roomId = Null \/ sockets[c].roomId \notin sockets[c].joined
          /\ LeaveRoom(c) \/ Disconnect(c)
          => rooms' = rooms]_vars

\* a second leaveRoom of a connection: it is open and out of the channel of
\* the room it left, and the other viewer of that room is still on the roster
C15_Witness ==
    \E c \in Conns, e \in Emitted("viewerLeft") :
        /\ sockets[c].status = "open"
        /\ e.data.viewerId = c
        /\ sockets[c].roomId = e.channel
        /\ \A x \in Emitted("viewerCount") : c \notin x.to /\ x.data.count = 1
        /\ e.channel \in DOMAIN rooms
        /\ Roster(e.channel) = Conns \ {c}

\* C16: after a leaveRoom or disconnect of a connection its id is on the
\* roster of no room, whatever joinRoom events it sent before.
C16_LeaverOnNoRoster ==
    [][\A c \in Conns :
          LeaveRoom(c) \/ Disconnect(c) =>
             \A r \in DOMAIN rooms' : c \notin Roster(r)']_vars

\* C17: a joinRoom on an existing room emits viewerJoined to the other
\* members of the room and viewerCount to all its members; a leaveRoom or
\* disconnect that removes a roster entry emits viewerLeft to the other
\* members and viewerCount to all members; each viewerCount carries the
\* length of the roster as the step leaves it.
C17_Join ==
    \A c \in Conns, r \in RoomIds :
        JoinRoom(c, r) /\ r \in DOMAIN rooms =>
           /\ \E e \in out' : e.event = "viewerJoined" /\ e.channel = r
                              /\ e.data.viewer.id = c /\ e.to = Members(r)' \ {c}
           /\ \E e \in out' : e.event = "viewerCount" /\ e.channel = r
                              /\ e.to = Members(r)'
                              /\ e.data.count = Len(rooms'[r].viewers)

C17_Leave ==
    \A c \in Conns :
        rooms' # rooms /\ (LeaveRoom(c) \/ Disconnect(c)) =>
           LET r == sockets[c].roomId
           IN /\ \E e \in out' : e.event = "viewerLeft" /\ e.channel = r
                                 /\ e.data.viewerId = c /\ e.to = Members(r)' \ {c}
              /\ \E e \in out' : e.event = "viewerCount" /\ e.channel = r
                                 /\ Members(r)' \subseteq e.to
                                 /\ e.to \subseteq Members(r)' \cup {c}
                                 /\ e.data.count = Len(rooms'[r].viewers)

C17_PresenceBroadcast == [][C17_Join /\ C17_Leave]_vars

\* a connection left a room that still has a member: that member was sent
\* viewerLeft and viewerCount 1
C17_Witness ==
    \E e \in Emitted("viewerLeft"), x \in Emitted("viewerCount") :
        /\ e.channel \in DOMAIN rooms
        /\ e.data.viewerId \notin Roster(e.channel)
        /\ Cardinality(e.to) = 1
        /\ e.to = Members(e.channel)
        /\ x.data.count = 1
        /\ e.to \subseteq x.to

\* C18: every client event that names a room that does not exist is answered
\* with one 'Room not found' error sent to the originating connection only,
\* and changes no room state.
RoomNotFound(c) == Emit("error", Null, {c}, [message |-> "Room not found"])

C18_RoomNotFoundAnswered ==
    [][\A c \in OneConn, r \in RoomIds :
          /\ r \notin DOMAIN rooms
          /\ \/ JoinRoom(c, r)
             \/ \E t \in OnePosition, d \in NoDelay :
                   Play(c, r, t, d) \/ Pause(c, r, t, d) \/ Seek(c, r, t, d)
             \/ \E d \in NoDelay : RequestSync(c, r, d)
             \/ \E m \in OneMessage : ChatMessage(c, r, m)
             \/ \E j \in Emojis : Reaction(c, r, j)
          => /\ out' = {RoomNotFound(c)}
             /\ rooms' = rooms /\ syncRooms' = syncRooms /\ heap' = heap]_vars

\* C19: creating a room with an id that is taken fails: the room that has
\* the id keeps its roster, anchor and chat history.
C19_CreateKeepsExistingRoom ==
    [][\A m \in MovieIds, id \in RoomIds :
          id \in DOMAIN rooms /\ CreateRoom(m, id) =>
             /\ rooms'[id] = rooms[id]
             /\ Anchor(id)' = Anchor(id)
             /\ syncRooms' = syncRooms]_vars

\* C20: a deleted room is in neither registry, so that a later play, pause,
\* seek, requestSync, chatMessage or reaction naming it emits nothing and
\* changes no state, and a later heartbeat tick emits no syncHeartbeat for
\* it, although sockets that joined it are still in its channel.
C20_Deleted(r) == r \in usedIds /\ r \notin DOMAIN rooms

C20_DeletedRoomInert ==
    [][/\ \A r \in RoomIds :
             DeleteRoom(r) => r \notin DOMAIN rooms' /\ r \notin DOMAIN syncRooms'
       /\ \A c \in OneConn, r \in RoomIds :
             /\ C20_Deleted(r)
             /\ \/ \E t \in OnePosition, d \in NoDelay :
                      Play(c, r, t, d) \/ Pause(c, r, t, d) \/ Seek(c, r, t, d)
                \/ \E d \in NoDelay : RequestSync(c, r, d)
                \/ \E m \in OneMessage : ChatMessage(c, r, m)
                \/ \E j \in Emojis : Reaction(c, r, j)
             => /\ out' = {}
                /\ rooms' = rooms /\ syncRooms' = syncRooms /\ heap' = heap
                /\ sockets' = sockets
       /\ \A d \in NoDelay :
             Heartbeat(d) => \A e \in out' : ~C20_Deleted(e.channel)']_vars

\* a heartbeat tick after the deletion of a room: the other room got
\* its syncHeartbeat, the deleted room none, and a socket is still in the
\* deleted room's channel
C20_Witness ==
    \E r \in RoomIds, c \in Conns :
        /\ C20_Deleted(r)
        /\ r \in sockets[c].joined
        /\ Emitted("syncHeartbeat") # {}
        /\ \A e \in out : e.channel # r

\* C21: POST /api/rooms for a movie that does not exist is answered 404
\* 'Movie not found', for a movie whose transcodeStatus is pending, processing
\* or failed 400 'Movie transcoding not completed', in both cases with no room
\* added to either registry; a room is added only for a completed movie.
C21_RoomNeedsCompletedMovie ==
    [][\A m \in MovieIds, id \in RoomIds :
          CreateRoom(m, id) =>
             IF m \notin DOMAIN movies
             THEN /\ out' = {Respond(404, [error |-> "Movie not found"])}
                  /\ rooms' = rooms /\ syncRooms' = syncRooms
             ELSE IF movies[m].transcodeStatus \in {"pending", "processing", "failed"}
             THEN /\ out' = {Respond(400, [error |-> "Movie transcoding not completed"])}
                  /\ rooms' = rooms /\ syncRooms' = syncRooms
             ELSE /\ movies[m].transcodeStatus = "completed"
                  /\ id \in DOMAIN rooms' /\ id \in DOMAIN syncRooms']_vars

\* a create was rejected for a movie whose transcode failed, and no room exists
C21_Witness ==
    \E e \in Emitted("response") :
        /\ e.data.status = 400
        /\ "m1" \in DOMAIN movies
        /\ movies["m1"].transcodeStatus = "failed"
        /\ rooms = EmptyMap /\ syncRooms = EmptyMap

\* C22: a room's chat history never holds more than 200 messages; a
\* chatMessage leaves the history with the new message last, preceded by the
\* messages it held before in their order, less the oldest ones beyond 200.
C22_AtMostLimit == \A r \in DOMAIN rooms : Len(rooms[r].chat) <= ChatLimit

C22_KeepsMostRecent ==
    \A c \in OneConn, r \in OneRoom, m \in Messages :
        ChatMessage(c, r, m) /\ r \in DOMAIN rooms =>
            LET old == rooms[r].chat
                new == rooms'[r].chat
                k == Len(new)
            IN /\ k = IF Len(old) + 1 > ChatLimit THEN ChatLimit ELSE Len(old) + 1
               /\ new[k].message = substring(m, MessageLimit)
               /\ new[k].timestamp = now
               /\ \A i \in 1..(k - 1) : new[i] = old[Len(old) + 1 - k + i]

C22_ChatBound == []C22_AtMostLimit /\ [][C22_KeepsMostRecent]_vars

\* 202 messages were appended: the history holds 200, the two oldest are
\* gone and the two newest are last
C22_Witness ==
    \E r \in DOMAIN rooms :
        LET chat == rooms[r].chat
        IN /\ Len(chat) = ChatLimit
           /\ chat[1] = [username |-> "s1", message |-> 3, timestamp |-> 0]
           /\ chat[ChatLimit - 1].timestamp > 0
           /\ chat[ChatLimit].timestamp > chat[ChatLimit - 1].timestamp

\* whether connection c has passed the admin credential check: adminAuth is
\* mounted on HTTP routes only; the Socket.IO handshake and the socket
\* handlers run no credential check, so no socket has passed one
PassedCredentialCheck(c) == FALSE

\* C23: a play or pause from a connection that has not passed the admin
\* credential check, including one that never joined the room, leaves the
\* room's anchor unchanged.
C23_OnlyAdminChangesAnchor ==
    [][\A c \in Conns, r \in RoomIds, t \in Positions, d \in Delays :
          /\ r \in DOMAIN rooms
          /\ ~PassedCredentialCheck(c)
          /\ r \notin sockets[c].joined
          /\ Play(c, r, t, d) \/ Pause(c, r, t, d)
          => Anchor(r)' = Anchor(r)]_vars

\* ---------------------------------------------------------------- C24
\* C24: stopping the heartbeat broadcaster is idempotent: a stop leaves no
\* current timer handle, a further stop changes nothing, and once stopped no
\* tick sends a syncHeartbeat until the broadcaster is started again.
C24_StopIsIdempotent ==
    [][/\ StopSyncBroadcasts => service'.syncInterval = NoTimer
       /\ service.syncInterval = NoTimer /\ StopSyncBroadcasts => service' = service
       /\ \A d \in NoDelay :
             Heartbeat(d) /\ out' # {} => service.syncInterval # NoTimer]_vars

\* ---------------------------------------------------------------- C25
\* C25: when a connection joins a Playing room, the roomState sent to the
\* joiner carries the extrapolated position (stored currentTime plus the time
\* elapsed since lastUpdate), not the stored anchor position.
C25_RoomStateExtrapolated ==
    [][\A c \in Conns, r \in OneRoom :
          (/\ r \in DOMAIN rooms
           /\ Anchor(r).isPlaying
           /\ JoinRoom(c, r))
          => \A e \in {x \in out' : x.event = "roomState"} :
                e.data.playbackState.currentTime = Extrapolate(Anchor(r), now)]_vars

\* ---------------------------------------------------------------- C26
\* C26: the serverTime carried by a syncPlay, syncPause or syncSeek message
\* equals the lastUpdate the same event stored in the room's anchor, even if
\* the server clock advances while the handler runs.
C26_ServerTimeIsLastUpdate ==
    [][\A c \in Conns, r \in OneRoom, t \in Positions, d \in Delays :
          (/\ r \in DOMAIN rooms
           /\ Play(c, r, t, d) \/ Pause(c, r, t, d) \/ Seek(c, r, t, d))
          => \A e \in {x \in out' : x.event \in SyncEvents} :
                e.data.serverTime = Anchor(r)'.lastUpdate]_vars

\* ---------------------------------------------------------------- C27
\* C27: only play, pause and seek change a room's anchor: joinRoom,
\* leaveRoom, disconnect, requestSync, chatMessage, reaction and a heartbeat
\* tick leave every anchor unchanged, and a play, pause or seek on one room
\* leaves the anchor of every other room unchanged.
C27_OtherHandler ==
    \/ \E c \in OneConn, r \in RoomIds : JoinRoom(c, r)
    \/ \E c \in OneConn : LeaveRoom(c) \/ Disconnect(c)
    \/ \E c \in OneConn, r \in RoomIds, d \in NoDelay : RequestSync(c, r, d)
    \/ \E c \in OneConn, r \in RoomIds, m \in OneMessage : ChatMessage(c, r, m)
    \/ \E c \in OneConn, r \in RoomIds, j \in Emojis : Reaction(c, r, j)
    \/ \E d \in NoDelay : Heartbeat(d)

C27_OnlyTransportChangesAnchor ==
    [][/\ C27_OtherHandler => heap' = heap
       /\ \A c \in OneConn, r \in RoomIds, t \in OnePosition, d \in NoDelay :
             Play(c, r, t, d) \/ Pause(c, r, t, d) \/ Seek(c, r, t, d)
             => \A q \in DOMAIN rooms \ {r} : Anchor(q)' = Anchor(q)]_vars

\* a reaction was sent to a Playing room while another room is paused
C27_Witness ==
    \E r, q \in DOMAIN rooms :
        /\ \E e \in Emitted("newReaction") : e.channel = r
        /\ Anchor(r).isPlaying
        /\ ~Anchor(q).isPlaying

\* ---------------------------------------------------------------- C28
\* C28: at every moment at most one heartbeat timer is running, and after
\* any sequence of starts and stops a single stop leaves no timer running.
C28_AtMostOneTimer ==
    /\ [](Cardinality(service.timers) <= 1)
    /\ [][StopSyncBroadcasts => service'.timers = {}]_vars

\* ---------------------------------------------------------------- C29
\* C29: when the emit for one room throws during a heartbeat tick, the same
\* tick still sends the heartbeat to every other Playing room and the failure
\* does not leave the tick: the process lives on and later ticks fire.
C29_FailureIsolated ==
    [][\A d \in NoDelay, r \in RoomIds, done \in SUBSET RoomIds :
          HeartbeatThrows(d, r, done)
          => /\ \A q \in HeartbeatRooms \ {r} :
                   \E e \in out' : e.event = "syncHeartbeat" /\ e.channel = q
             /\ Alive']_vars

\* ---------------------------------------------------------------- C30
\* C30: a leaveRoom or disconnect that removes no viewer (the connection has
\* already left its room, or never joined one) is a no-op: no viewerLeft and
\* no viewerCount message reaches any connection.
C30_NoOpLeaveIsSilent ==
    [][\A c \in Conns :
          /\ \A r \in DOMAIN rooms : c \notin Roster(r)
          /\ LeaveRoom(c) \/ Disconnect(c)
          => \A e \in out' : e.event \in {"viewerLeft", "viewerCount"} => e.to = {}]_vars

\* ---------------------------------------------------------------- C31
\* C31: the server's rooms map and SyncService.rooms hold the same room ids,
\* and for each id the anchor the heartbeat reads from the SyncService equals
\* the anchor the socket handlers write and requestSync reads.
C31_RegistriesAgree ==
    /\ DOMAIN syncRooms = DOMAIN rooms
    /\ \A r \in DOMAIN rooms : SyncAnchor(r) = Anchor(r)

\* ---------------------------------------------------------------- C32
\* C32: a connection id appears at most once in a room's roster and in the
\* roster of at most one room, and the viewerCount broadcast for a room is the
\* number of distinct connections in it, also after repeated joinRoom events
\* of one connection.
C32_OneEntryPerConnection ==
    /\ \A r \in DOMAIN rooms, c \in Conns : Entries(r, c) <= 1
    /\ \A c \in Conns : Cardinality({r \in DOMAIN rooms : c \in Roster(r)}) <= 1
    /\ \A e \in Emitted("viewerCount") :
          e.channel \in DOMAIN rooms => e.data.count = Cardinality(Roster(e.channel))

\* ---------------------------------------------------------------- C33
\* C33: for every existing room, the connections subscribed to the room's
\* broadcast channel are exactly the connection ids on the room's roster,
\* after any sequence of joinRoom, leaveRoom and disconnect events.
C33_ChannelIsRoster ==
    \A r \in DOMAIN rooms : Channel(sockets, r) = Roster(r)
====
